---------------------------- MODULE Spec2Model ----------------------------
(***************************************************************************)
(* A model of the classroom preference-graph core:                         *)
(*   - PrefDAG.add_edge / PrefDAG.add_edges_from   (pref_dag.py)           *)
(*   - PrefDAG.searchsorted                        (pref_dag.py)           *)
(*   - PrefDAG.median                              (pref_dag.py)           *)
(*   - ranked_pairs                                (voting.py)             *)
(*   - update_rewards                              (bayes.py)              *)
(*                                                                         *)
(* A graph is a record [nodes, edges]; edges is a set of triples           *)
(* <<a, b, weight>> holding at most one triple per ordered pair (a, b),    *)
(* as in a networkx DiGraph.  A weight > 0 is a strict preference, a       *)
(* weight of 0 an indifference.                                            *)
(***************************************************************************)
EXTENDS Integers, Sequences, FiniteSets, TLC

(* ----------------------------- bounds --------------------------------- *)

\* The node identifiers the callers draw from.
Nodes == {1, 2, 3}

\* The weights the callers pass: 0 is an indifference, 1 the default weight.
Weights == {0, 1}

\* Longest batch handed to add_edges_from.
MaxBatch == 2

\* Most edges a committed graph holds in the exploration of add_edge and
\* add_edges_from.
MaxEdges == 2

\* Most ballots handed to ranked_pairs.
MaxBallots == 3

\* Most nodes of a totally ordered PrefDAG handed to searchsorted.
MaxSorted == 4

\* Most edges of a graph handed to update_rewards.
MaxRewardEdges == 1

(* ------------------------------ state --------------------------------- *)

VARIABLES
    nodes,      \* the PrefDAG's node set (in ranked_pairs: of `results`)
    edges,      \* the PrefDAG's edges, triples <<a, b, weight>>
    op,         \* the last operation called on the PrefDAG
    exc,        \* the exception the last operation raised to its caller
    rpc,        \* ranked_pairs: where the call stands
    tally,      \* ranked_pairs: the Counter, votes per ordered pair
    nballots,   \* ranked_pairs: the ballots consumed so far
    todo,       \* ranked_pairs: the pairs of most_common() not yet visited
    spc,        \* searchsorted: where the generator stands
    ordering,   \* searchsorted: the snapshot of the topological ordering
    lo,         \* searchsorted: lower bound
    hi,         \* searchsorted: upper bound
    pivot,      \* searchsorted: index of the probe last yielded
    probe,      \* searchsorted: the node last yielded
    ret,        \* searchsorted: the value returned (StopIteration.value)
    k,          \* the driver's target index
    consistent, \* the driver answered every probe consistently with k
    med,        \* median: the node the last call returned
    votes,      \* per ordered pair, the ballots consumed so far that rank it
    norder,     \* the graph's nodes in insertion (iteration) order
    rewards,    \* per node, the 'reward' attribute: <<>> absent, <<v>> set
    b0,         \* update_rewards: the initial point handed to the solver
    result,     \* update_rewards: what the solver returned to the last call
    msg         \* the message the raised exception carries, <<>> for none

dagvars == <<nodes, edges, op, exc>>
rpvars == <<rpc, tally, nballots, todo>>
genvars == <<spc, ordering, lo, hi, pivot, probe, ret, k, consistent>>
medvars == <<med>>
urvars == <<norder, rewards, b0, result, msg>>
restvars == <<medvars, votes, urvars>>
vars == <<dagvars, rpvars, genvars, restvars>>

\* The PrefDAG held in the state.
G == [nodes |-> nodes, edges |-> edges]

\* PrefDAG(): a graph without nodes or edges.
EmptyGraph == [nodes |-> {}, edges |-> {}]

\* No exception: the call returned normally.
NoExc == [kind |-> "none", has_cycle |-> FALSE, cycle |-> <<>>]

(* ------------------------ graph capability ---------------------------- *)

\* The ordered pairs joined by an edge of Gr, whatever its weight.
Pairs(Gr) == {<<e[1], e[2]>> : e \in Gr.edges}

\* PrefGraph.add_edge (DiGraph.add_edge): both endpoints become nodes; an
\* edge a->b already present has its weight overwritten.
PrefGraph_add_edge(Gr, a, b, w) ==
    [nodes |-> Gr.nodes \cup {a, b},
     edges |-> {e \in Gr.edges : <<e[1], e[2]>> # <<a, b>>} \cup {<<a, b, w>>}]

\* DiGraph.remove_edge: the edge a->b goes, whatever its weight; the nodes stay.
remove_edge(Gr, a, b) ==
    [nodes |-> Gr.nodes,
     edges |-> {e \in Gr.edges : <<e[1], e[2]>> # <<a, b>>}]

\* PrefGraph.strict_prefs: the pairs joined by an edge of weight > 0.
strict_prefs(Gr) == {<<e[1], e[2]>> : e \in {x \in Gr.edges : x[3] > 0}}

\* The nodes reachable from a node of S along pairs of E, S included.
RECURSIVE Reachable(_, _)
Reachable(E, S) ==
    LET T == S \cup {e[2] : e \in {x \in E : x[1] \in S}}
    IN  IF T = S THEN S ELSE Reachable(E, T)

\* The sequences of n distinct elements of V.
RECURSIVE DistinctSeqs(_, _)
DistinctSeqs(V, n) ==
    IF n = 0 THEN {<<>>}
    ELSE UNION {{Append(s, v) : v \in V \ {s[i] : i \in 1..Len(s)}} :
                s \in DistinctSeqs(V, n - 1)}

\* The cycle that visits the nodes of s in turn, as networkx lists it: one
\* pair (tail, head) per edge, the last one leading back to s[1].
CycleOf(s) == [i \in 1..Len(s) |-> <<s[i], s[(i % Len(s)) + 1]>>]

\* c is a directed cycle of E: a non-empty list of pairs of E, each leading
\* to the next and the last to the first, that visits no node twice.
IsCycle(E, c) ==
    /\ Len(c) >= 1
    /\ \A i \in 1..Len(c) : c[i] \in E /\ c[i][2] = c[(i % Len(c)) + 1][1]
    /\ \A i, j \in 1..Len(c) : c[i][1] = c[j][1] => i = j

\* Every directed cycle of E, self-loops included, from each of its nodes.
Cycles(E) ==
    LET V == {e[1] : e \in E}
    IN  {c \in {CycleOf(s) : s \in UNION {DistinctSeqs(V, n) : n \in 1..Cardinality(V)}} :
            \A i \in 1..Len(c) : c[i] \in E}

\* The edges of E that lie on a cycle or lead to one: what is left after
\* removing, again and again, the edges into a node without outgoing edges.
RECURSIVE Core(_)
Core(E) ==
    LET live == {e \in E : \E f \in E : f[1] = e[2]}
    IN  IF live = E THEN E ELSE Core(live)

\* Some cycle of E can be reached from the sources.
HasCycle(E, sources) ==
    \E e \in Core(E) : e[1] \in sources \/ e[1] \in Reachable(E, sources)

\* nx.find_cycle(E, source): the cycles an edge-DFS from the sources can close,
\* listed from the node where the DFS closes them.  Which one is found depends
\* on the adjacency order; NetworkXNoCycle is the empty set.
find_cycle(E, sources) ==
    IF HasCycle(E, sources)
    THEN {c \in Cycles(E) : c[1][1] \in Reachable(E, sources)}
    ELSE {}

(* ------------------------------ PrefDAG ------------------------------- *)

\* The exception add_edge raises: `ex.cycle = cycle` is set before the raise.
TransitivityViolation(c) ==
    [kind |-> "TransitivityViolation", has_cycle |-> TRUE, cycle |-> c]

\* The exception add_edges_from raises: the cycle goes into the message only,
\* the cycle attribute is never assigned.
TransitivityViolationNoCycle ==
    [kind |-> "TransitivityViolation", has_cycle |-> FALSE, cycle |-> <<>>]

\* add_edge without its cycle check: every edge is committed.
add_edge_unchecked(Gr, a, b, w) ==
    {[G |-> PrefGraph_add_edge(Gr, a, b, w), exc |-> NoExc]}

\* add_edge that raises on a cycle but forgets to remove the edge it added.
add_edge_no_rollback(Gr, a, b, w) ==
    LET G1 == PrefGraph_add_edge(Gr, a, b, w)
        found == IF w > 0 THEN find_cycle(strict_prefs(G1), {a}) ELSE {}
    IN  IF found = {}
        THEN {[G |-> G1, exc |-> NoExc]}
        ELSE {[G |-> G1, exc |-> TransitivityViolation(c)] : c \in found}

\* add_edge that looks for the cycle in the whole graph, indifferences included,
\* instead of in strict_prefs.
add_edge_any_weight(Gr, a, b, w) ==
    LET G1 == PrefGraph_add_edge(Gr, a, b, w)
        found == IF w > 0 THEN find_cycle(Pairs(G1), {a}) ELSE {}
    IN  IF found = {}
        THEN {[G |-> G1, exc |-> NoExc]}
        ELSE {[G |-> remove_edge(G1, a, b), exc |-> TransitivityViolation(c)] :
                c \in found}

\* add_edge that runs the cycle check over every edge and for every weight.
add_edge_check_all(Gr, a, b, w) ==
    LET G1 == PrefGraph_add_edge(Gr, a, b, w)
        found == find_cycle(Pairs(G1), {a})
    IN  IF found = {}
        THEN {[G |-> G1, exc |-> NoExc]}
        ELSE {[G |-> remove_edge(G1, a, b), exc |-> TransitivityViolation(c)] :
                c \in found}

\* add_edge that skips the cycle check for an edge from a node to itself.
add_edge_no_self_check(Gr, a, b, w) ==
    LET G1 == PrefGraph_add_edge(Gr, a, b, w)
        found == IF w > 0 /\ a # b THEN find_cycle(strict_prefs(G1), {a}) ELSE {}
    IN  IF found = {}
        THEN {[G |-> G1, exc |-> NoExc]}
        ELSE {[G |-> remove_edge(G1, a, b), exc |-> TransitivityViolation(c)] :
                c \in found}

\* PrefDAG.add_edge(a, b, weight): the outcomes of the call, each the graph
\* it leaves and the exception it raises.
add_edge(Gr, a, b, w) ==
    LET G1 == PrefGraph_add_edge(Gr, a, b, w)
        found == IF w > 0 THEN find_cycle(strict_prefs(G1), {a}) ELSE {}
    IN  IF found = {}
        THEN {[G |-> G1, exc |-> NoExc]}
        ELSE {[G |-> remove_edge(G1, a, b), exc |-> TransitivityViolation(c)] :
                c \in found}

\* DiGraph.add_edges_from(ebunch, weight=w): the pairs are inserted in order.
RECURSIVE DiGraph_add_edges_from(_, _, _)
DiGraph_add_edges_from(Gr, ebunch, w) ==
    IF ebunch = <<>> THEN Gr
    ELSE DiGraph_add_edges_from(
            PrefGraph_add_edge(Gr, Head(ebunch)[1], Head(ebunch)[2], w),
            Tail(ebunch), w)

\* DiGraph.remove_edges_from(ebunch): every pair of the batch that is an edge
\* is removed; the others are ignored.
remove_edges_from(Gr, ebunch) ==
    [nodes |-> Gr.nodes,
     edges |-> {e \in Gr.edges :
                  \A i \in 1..Len(ebunch) : <<e[1], e[2]>> # ebunch[i]}]

\* add_edges_from that raises on a cycle but leaves the batch in the graph.
add_edges_from_no_rollback(Gr, ebunch, w) ==
    LET G1 == DiGraph_add_edges_from(Gr, ebunch, w)
        found == find_cycle(strict_prefs(G1), G1.nodes)
    IN  IF found = {}
        THEN {[G |-> G1, exc |-> NoExc]}
        ELSE {[G |-> G1, exc |-> TransitivityViolationNoCycle]}

\* PrefDAG.add_edges_from(ebunch_to_add, weight=w): one check after the batch.
add_edges_from(Gr, ebunch, w) ==
    LET G1 == DiGraph_add_edges_from(Gr, ebunch, w)
        found == find_cycle(strict_prefs(G1), G1.nodes)
    IN  IF found = {}
        THEN {[G |-> G1, exc |-> NoExc]}
        ELSE {[G |-> remove_edges_from(G1, ebunch),
               exc |-> TransitivityViolationNoCycle]}

\* The batches the callers pass: up to MaxBatch pairs of distinct nodes, a
\* pair possibly named twice.
Batches ==
    UNION {[1..n -> {p \in Nodes \X Nodes : p[1] # p[2]}] : n \in 0..MaxBatch}

(* --------------------- actions on a PrefDAG --------------------------- *)

\* The Counter before any ballot is counted: a pair it does not hold counts 0.
ZeroTally == [p \in Nodes \X Nodes |-> 0]

\* No ranked_pairs call and no searchsorted generator in this behaviour.
RPIdle == rpc = "off" /\ tally = ZeroTally /\ nballots = 0 /\ todo = {}

GenIdle ==
    /\ spc = "off" /\ ordering = <<>> /\ lo = 0 /\ hi = 0 /\ pivot = 0
    /\ probe = 0 /\ ret = 0 /\ k = 0 /\ consistent = TRUE

\* No node carries a 'reward' attribute.
NoRewards == [n \in Nodes |-> <<>>]

\* The solver was not invoked.
NoResult == [called |-> FALSE, success |-> FALSE, x |-> <<>>, message |-> ""]

\* No median call, no ballot counted and no update_rewards call so far.
MedIdle == med = 0
VotesIdle == votes = ZeroTally
URIdle ==
    /\ norder = <<>> /\ rewards = NoRewards /\ b0 = <<>>
    /\ result = NoResult /\ msg = <<>>

Init ==
    /\ nodes = {}
    /\ edges = {}
    /\ op = "init"
    /\ exc = NoExc
    /\ RPIdle
    /\ GenIdle
    /\ MedIdle /\ VotesIdle /\ URIdle

\* A call dag.add_edge(a, b, w).
AddEdge(a, b, w) ==
    \E o \in add_edge(G, a, b, w) :
        /\ Cardinality(o.G.edges) <= MaxEdges
        /\ nodes' = o.G.nodes
        /\ edges' = o.G.edges
        /\ exc' = o.exc
        /\ op' = "add_edge"

\* A call dag.add_edges_from(ebunch, weight=w).
AddEdgesFrom(ebunch, w) ==
    \E o \in add_edges_from(G, ebunch, w) :
        /\ Cardinality(o.G.edges) <= MaxEdges
        /\ nodes' = o.G.nodes
        /\ edges' = o.G.edges
        /\ exc' = o.exc
        /\ op' = "add_edges_from"

Next ==
    \/ /\ \E a \in Nodes, b \in Nodes, w \in Weights : AddEdge(a, b, w)
       /\ UNCHANGED <<rpvars, genvars, restvars>>
    \/ /\ \E ebunch \in Batches, w \in Weights : AddEdgesFrom(ebunch, w)
       /\ UNCHANGED <<rpvars, genvars, restvars>>

Spec == Init /\ [][Next]_vars

(* --------------------------- ranked_pairs ----------------------------- *)

\* nx.dag.descendants(E, source): the nodes reachable from source along one
\* or more pairs of E, source itself left out.
descendants(E, source) ==
    Reachable(E, {e[2] : e \in {x \in E : x[1] = source}}) \ {source}

\* The pairs of a ballot's strict edges only, successors in place of
\* descendants.
BallotPairs_direct(ballot) ==
    {<<e[1], e[2]>> : e \in {x \in ballot.edges : x[3] > 0}}

\* The (candidate, loser) pairs one ballot feeds to the Counter: every node of
\* the ballot with each of its descendants in ballot.strict_prefs.
BallotPairs(ballot) ==
    UNION {{<<candidate, loser>> :
              loser \in descendants(strict_prefs(ballot), candidate)} :
           candidate \in ballot.nodes}

\* The Counter after one more ballot.
Count(t, ballot) ==
    [p \in Nodes \X Nodes |->
        IF p \in BallotPairs(ballot) THEN t[p] + 1 ELSE t[p]]

\* most_common() sorted the wrong way round: the smallest count first.
most_common_ascending(t, left) ==
    {p \in left : \A q \in left : t[q] >= t[p]}

\* The pairs of the Counter in no particular order, as tally.items() lists
\* them.
most_common_unsorted(t, left) == left

\* The pairs tally.most_common() may list next among those left: the ones with
\* the largest count.  Equal counts come in the Counter's insertion order,
\* which follows the ballots' node and set iteration orders: any of them.
most_common(t, left) ==
    {p \in left : \A q \in left : t[q] <= t[p]}

\* PrefGraph.add_greater(a, b, weight): a strict edge, through add_edge.
add_greater(Gr, a, b, w) == add_edge(Gr, a, b, w)

\* One round of the loop of ranked_pairs: add_greater in a try whose except
\* clause swallows a TransitivityViolation; any other exception propagates.
try_add_greater(Gr, p, count) ==
    {[G |-> o.G,
      exc |-> IF o.exc.kind = "TransitivityViolation" THEN NoExc ELSE o.exc] :
        o \in add_greater(Gr, p[1], p[2], count)}

\* The ballots the callers pass: PrefDAGs over Nodes whose strict edges, of
\* weight 1, form no cycle, with at most one indifference edge.
BallotEdgeSets ==
    LET P == {p \in Nodes \X Nodes : p[1] # p[2]}
        strict == {D \in SUBSET P : Cycles(D) = {}}
    IN  {{<<p[1], p[2], 1>> : p \in D} : D \in strict} \cup
        UNION {{{<<p[1], p[2], 1>> : p \in D} \cup {<<q[1], q[2], 0>>} :
                  q \in P \ D} : D \in strict}

Ballots ==
    {[nodes |-> {e[1] : e \in E} \cup {e[2] : e \in E}, edges |-> E] :
        E \in BallotEdgeSets}

InitRP ==
    /\ nodes = {}
    /\ edges = {}
    /\ op = "init"
    /\ exc = NoExc
    /\ rpc = "tally"
    /\ tally = ZeroTally
    /\ nballots = 0
    /\ todo = {}
    /\ GenIdle
    /\ MedIdle /\ VotesIdle /\ URIdle

\* The Counter consumes the next ballot of the iterable.
RPTally(ballot) ==
    /\ rpc = "tally"
    /\ nballots < MaxBallots
    /\ tally' = Count(tally, ballot)
    /\ nballots' = nballots + 1
    /\ UNCHANGED <<rpc, todo, dagvars>>

\* The iterable is exhausted: results = PrefDAG(), and most_common() lists
\* the pairs the Counter holds.
RPSort ==
    /\ rpc = "tally"
    /\ rpc' = "lock"
    /\ todo' = {p \in Nodes \X Nodes : tally[p] > 0}
    /\ nodes' = EmptyGraph.nodes
    /\ edges' = EmptyGraph.edges
    /\ UNCHANGED <<tally, nballots, op, exc>>

\* One round of the loop over most_common().
RPLock ==
    /\ rpc = "lock"
    /\ todo # {}
    /\ \E p \in most_common(tally, todo) :
         \E o \in try_add_greater(G, p, tally[p]) :
            /\ nodes' = o.G.nodes
            /\ edges' = o.G.edges
            /\ exc' = o.exc
            /\ op' = "add_greater"
            /\ rpc' = IF o.exc = NoExc THEN "lock" ELSE "raised"
            /\ todo' = todo \ {p}
    /\ UNCHANGED <<tally, nballots>>

\* The loop is over: return results.
RPReturn ==
    /\ rpc = "lock"
    /\ todo = {}
    /\ rpc' = "done"
    /\ UNCHANGED <<tally, nballots, todo, dagvars>>

\* In a ballot the candidate l is reachable from w along one or more strict
\* edges: some walk w = s[1], ..., s[n + 1] = l follows edges of weight > 0.
StrictWalk(ballot, w, l) ==
    \E n \in 1..Cardinality(Nodes) :
        \E s \in [1..(n + 1) -> ballot.nodes] :
            /\ s[1] = w
            /\ s[n + 1] = l
            /\ \A i \in 1..n :
                  \E e \in ballot.edges :
                      e[1] = s[i] /\ e[2] = s[i + 1] /\ e[3] > 0

\* The record of the ballots consumed: per ordered pair, how many of them
\* rank the first candidate strictly above the second.
Voted(v, ballot) ==
    [p \in Nodes \X Nodes |->
        IF StrictWalk(ballot, p[1], p[2]) THEN v[p] + 1 ELSE v[p]]

NextRP ==
    \/ /\ \E ballot \in Ballots :
            RPTally(ballot) /\ votes' = Voted(votes, ballot)
       /\ UNCHANGED <<genvars, medvars, urvars>>
    \/ RPSort /\ UNCHANGED <<genvars, restvars>>
    \/ RPLock /\ UNCHANGED <<genvars, restvars>>
    \/ RPReturn /\ UNCHANGED <<genvars, restvars>>

SpecRP == InitRP /\ [][NextRP]_vars

(* --------------------------- searchsorted ----------------------------- *)

\* The nodes of strict_prefs: the subgraph induced by the strict edges.
strict_nodes(Gr) ==
    {e[1] : e \in strict_prefs(Gr)} \cup {e[2] : e \in strict_prefs(Gr)}

\* list(nx.topological_sort(...)) of the nodes V under the pairs E: every
\* order that lists each node after all its predecessors.  Which one is
\* produced among several depends on the insertion order of the nodes.
RECURSIVE topological_sort(_, _)
topological_sort(V, E) ==
    IF V = {} THEN {<<>>}
    ELSE LET Z == {v \in V : ~\E e \in E : e[2] = v /\ e[1] \in V}
         IN  UNION {{<<z>> \o r : r \in topological_sort(V \ {z}, E)} : z \in Z}

\* pivot = (lo + hi) // 2
Pivot(l, h) == (l + h) \div 2

\* The bounds after an answer, with `lo = pivot` for `lo = pivot + 1`.
NextBounds_lo_stuck(l, h, pv, greater) ==
    IF greater THEN <<pv, h>> ELSE <<l, pv>>

\* The bounds after an answer, with `hi = pivot - 1` for `hi = pivot`.
NextBounds_hi_minus(l, h, pv, greater) ==
    IF greater THEN <<pv + 1, h>> ELSE <<l, pv - 1>>

\* The bounds after an answer: lo = pivot + 1 if greater, else hi = pivot.
NextBounds(l, h, pv, greater) ==
    IF greater THEN <<pv + 1, h>> ELSE <<l, pv>>

\* The generator reading the graph's current topological ordering at every
\* resume, in place of the list it made when it started.
RunLoop_live(ord, l, h) ==
    \E cur \in topological_sort(strict_nodes(G), strict_prefs(G)) :
        /\ ordering' = cur
        /\ lo' = l
        /\ hi' = h
        /\ IF l < h
           THEN /\ spc' = "yielded"
                /\ pivot' = Pivot(l, h)
                /\ probe' = IF Pivot(l, h) + 1 <= Len(cur)
                            THEN cur[Pivot(l, h) + 1] ELSE 0
                /\ ret' = ret
           ELSE /\ spc' = "done"
                /\ ret' = l
                /\ UNCHANGED <<pivot, probe>>

\* The generator runs from the head of `while lo < hi` with bounds l, h to
\* its next yield, or to its return.
RunLoop(ord, l, h) ==
    /\ ordering' = ord
    /\ lo' = l
    /\ hi' = h
    /\ IF l < h
       THEN /\ spc' = "yielded"
            /\ pivot' = Pivot(l, h)
            /\ probe' = ord[Pivot(l, h) + 1]
            /\ ret' = ret
       ELSE /\ spc' = "done"
            /\ ret' = l
            /\ UNCHANGED <<pivot, probe>>

\* next(gen): the generator starts, snapshots the ordering and runs to its
\* first yield or its return.
SStart ==
    /\ spc = "idle"
    /\ \E ord \in topological_sort(strict_nodes(G), strict_prefs(G)) :
          RunLoop(ord, 0, Len(ord))
    /\ UNCHANGED <<k, consistent>>

\* gen.send(greater): the generator resumes with one boolean and runs to its
\* next yield or its return.  The answer is consistent with the target index
\* k when it is greater exactly for the probes at a position below k.
SResume(greater) ==
    /\ spc = "yielded"
    /\ LET nb == NextBounds(lo, hi, pivot, greater)
       IN  RunLoop(ordering, nb[1], nb[2])
    /\ consistent' = (consistent /\ (greater <=> pivot < k))
    /\ UNCHANGED k

\* The strict edges of weight 1 that make s a total order: the chain of
\* neighbours, or every pair in order.
ChainEdges(s) == {<<s[i], s[i + 1], 1>> : i \in 1..(Len(s) - 1)}

OrderEdges(s) ==
    {<<s[p[1]], s[p[2]], 1>> : p \in {q \in (1..Len(s)) \X (1..Len(s)) : q[1] < q[2]}}

\* The PrefDAGs whose strict subgraph is a total order of n nodes, n = 0 or
\* 2 <= n <= MaxSorted (a strict subgraph has no single node).
TotalOrders ==
    UNION {UNION {{[nodes |-> {s[i] : i \in 1..n}, edges |-> E] :
                      E \in {ChainEdges(s), OrderEdges(s)}} :
                  s \in DistinctSeqs(1..n, n)} :
           n \in {m \in 0..MaxSorted : m # 1}}

InitSorted ==
    /\ \E Gr \in TotalOrders :
          /\ nodes = Gr.nodes
          /\ edges = Gr.edges
          /\ k \in 0..Cardinality(Gr.nodes)
    /\ op = "init"
    /\ exc = NoExc
    /\ RPIdle
    /\ spc = "idle" /\ ordering = <<>> /\ lo = 0 /\ hi = 0 /\ pivot = 0
    /\ probe = 0 /\ ret = 0 /\ consistent = TRUE
    /\ MedIdle /\ VotesIdle /\ URIdle

NextSorted ==
    \/ SStart /\ UNCHANGED <<dagvars, rpvars, restvars>>
    \/ /\ \E greater \in BOOLEAN : SResume(greater)
       /\ UNCHANGED <<dagvars, rpvars, restvars>>

SpecSorted == InitSorted /\ [][NextSorted]_vars

\* The same, with a driver that answers every probe it is given.
SpecSortedDriven == SpecSorted /\ WF_vars(NextSorted)

\* searchsorted on a PrefDAG that its caller goes on extending: strict edges
\* are inserted before the generator starts and between its resumes.
InitMutated ==
    /\ nodes = {}
    /\ edges = {}
    /\ op = "init"
    /\ exc = NoExc
    /\ RPIdle
    /\ spc = "idle" /\ ordering = <<>> /\ lo = 0 /\ hi = 0 /\ pivot = 0
    /\ probe = 0 /\ ret = 0 /\ consistent = TRUE
    /\ k \in 0..Cardinality(Nodes)
    /\ MedIdle /\ VotesIdle /\ URIdle

NextMutated ==
    \/ /\ \E a \in Nodes, b \in Nodes : AddEdge(a, b, 1)
       /\ UNCHANGED <<rpvars, genvars, restvars>>
    \/ /\ SStart
       /\ op' = "next"
       /\ UNCHANGED <<nodes, edges, exc, rpvars, restvars>>
    \/ /\ \E greater \in BOOLEAN : SResume(greater)
       /\ op' = "send"
       /\ UNCHANGED <<nodes, edges, exc, rpvars, restvars>>

SpecMutated == InitMutated /\ [][NextMutated]_vars

(* ------------------------------ median ------------------------------- *)

\* The exception raised when the enumeration ends before the middle index.
RuntimeError == [kind |-> "RuntimeError", has_cycle |-> FALSE, cycle |-> <<>>]

\* middle_idx = len(self.strict_prefs) // 2
MiddleIdx(n) == n \div 2

\* median taking the lower of the two middle positions.
median_lower_middle(Gr) ==
    LET V == strict_nodes(Gr)
        middle_idx == IF V = {} THEN 0 ELSE (Cardinality(V) - 1) \div 2
    IN  {IF middle_idx < Len(ord)
         THEN [node |-> ord[middle_idx + 1], exc |-> NoExc, msg |-> <<>>]
         ELSE [node |-> 0, exc |-> RuntimeError,
               msg |-> <<"Could not find median">>] :
            ord \in topological_sort(V, strict_prefs(Gr))}

\* PrefDAG.median(): the node the enumeration of a topological sort reaches
\* at index middle_idx, a RuntimeError when it ends before.
median(Gr) ==
    LET V == strict_nodes(Gr)
        middle_idx == MiddleIdx(Cardinality(V))
    IN  {IF middle_idx < Len(ord)
         THEN [node |-> ord[middle_idx + 1], exc |-> NoExc, msg |-> <<>>]
         ELSE [node |-> 0, exc |-> RuntimeError,
               msg |-> <<"Could not find median">>] :
            ord \in topological_sort(V, strict_prefs(Gr))}

\* A call dag.median().
Median ==
    \E o \in median(G) :
        /\ med' = o.node
        /\ exc' = o.exc
        /\ msg' = o.msg
        /\ op' = "median"
        /\ UNCHANGED <<nodes, edges>>

\* A totally ordered PrefDAG, alone or with one more node tied by an
\* indifference edge to the first of the order.
WithIndifference(Gr) ==
    {Gr} \cup
    {[nodes |-> Gr.nodes \cup {x, Cardinality(Gr.nodes) + 1},
      edges |-> Gr.edges \cup {<<x, Cardinality(Gr.nodes) + 1, 0>>}] :
        x \in {y \in Gr.nodes : \A e \in Gr.edges : e[2] # y}}

InitMedian ==
    /\ \E Gr \in TotalOrders : \E Gi \in WithIndifference(Gr) :
          /\ nodes = Gi.nodes
          /\ edges = Gi.edges
    /\ op = "init"
    /\ exc = NoExc
    /\ RPIdle
    /\ GenIdle
    /\ MedIdle /\ VotesIdle /\ URIdle

NextMedian ==
    Median /\ UNCHANGED <<rpvars, genvars, votes, norder, rewards, b0, result>>

SpecMedian == InitMedian /\ [][NextMedian]_vars

(* --------------------------- update_rewards --------------------------- *)

\* The arguments the callers pass: the two families and an unknown one; eps
\* in eighths (1 is the default 0.125), zero included; no
\* prior (FALSE) or a distribution (TRUE).
Families == {"bradley-terry", "thurstone", "elo"}
EpsValues == {0, 1}
Priors == BOOLEAN

\* The values a fitted reward takes.
FitValues == {1, 2}

\* The messages a solver that did not converge reports.
SolverMessages == {"ABNORMAL_TERMINATION_IN_LNSRCH"}

AssertionError == [kind |-> "AssertionError", has_cycle |-> FALSE, cycle |-> <<>>]
ValueError == [kind |-> "ValueError", has_cycle |-> FALSE, cycle |-> <<>>]

\* G.degree(n): the edges leaving n plus the edges entering n, a self-loop
\* counted twice.
degree(Gr, n) ==
    Cardinality({e \in Gr.edges : e[1] = n}) +
    Cardinality({e \in Gr.edges : e[2] = n})

\* The list of every node of the graph, isolated ones included.
nonisolated_unfiltered(Gr, ord) == ord

\* nonisolated = [n for n in G if G.degree(n) > 0], in iteration order.
nonisolated(Gr, ord) ==
    LET keep(n) == degree(Gr, n) > 0
    IN  SelectSeq(ord, keep)

\* The seeding loop with `continue` in place of `break`: gaps are filled.
InitialPoint_fill_gaps(nis, rw) ==
    [i \in 1..Len(nis) |-> IF rw[nis[i]] # <<>> THEN rw[nis[i]][1] ELSE 0]

\* b0: zeros, overwritten by the existing rewards up to the first node that
\* has none.
RECURSIVE Seed(_, _, _)
Seed(nis, rw, i) ==
    IF i > Len(nis) \/ rw[nis[i]] = <<>>
    THEN [j \in 1..Len(nis) |-> 0]
    ELSE [Seed(nis, rw, i + 1) EXCEPT ![i] = rw[nis[i]][1]]

InitialPoint(nis, rw) == Seed(nis, rw, 1)

\* scipy.optimize.minimize from the initial point b: it converges to some
\* point, or it fails with a message.
minimize(b) ==
    {[called |-> TRUE, success |-> TRUE, x |-> x, message |-> "CONVERGENCE"] :
        x \in [1..Len(b) -> FitValues]}
    \cup
    {[called |-> TRUE, success |-> FALSE, x |-> b, message |-> m] :
        m \in SolverMessages}

\* The write-back loop ending after its first round.
WriteBack_first_only(rw, nis, x) ==
    [n \in Nodes |-> IF Len(nis) > 0 /\ n = nis[1] THEN <<x[1]>> ELSE rw[n]]

\* for node, reward in zip(nonisolated, result.x): G.nodes[node]['reward'] = reward
WriteBack(rw, nis, x) ==
    [n \in Nodes |->
        IF \E i \in 1..Len(nis) : nis[i] = n
        THEN <<x[CHOOSE i \in 1..Len(nis) : nis[i] = n]>>
        ELSE rw[n]]

\* update_rewards(G, family, eps=eps, prior=prior) on the graph Gr whose nodes
\* iterate in the order ord and carry the rewards rw.
update_rewards(Gr, ord, rw, family, eps, prior) ==
    IF ~(eps > 0)
    THEN {[rewards |-> rw, b0 |-> <<>>, result |-> NoResult,
           exc |-> AssertionError,
           msg |-> <<"Laplace smoothing parameter must be positive">>]}
    ELSE
    LET nis == nonisolated(Gr, ord)
    IN  IF nis = <<>>
        THEN {[rewards |-> rw, b0 |-> <<>>, result |-> NoResult,
               exc |-> NoExc, msg |-> <<>>]}
        ELSE
        LET b == InitialPoint(nis, rw)
        IN  IF family \notin {"bradley-terry", "thurstone"}
            THEN {[rewards |-> rw, b0 |-> <<>>, result |-> NoResult,
                   exc |-> ValueError,
                   msg |-> <<"Unknown family: ", family>>]}
            ELSE
            {IF ~r.success
             THEN [rewards |-> rw, b0 |-> b, result |-> r,
                   exc |-> RuntimeError,
                   msg |-> <<"Reward estimation failed to converge: ",
                             r.message>>]
             ELSE [rewards |-> WriteBack(rw, nis, r.x), b0 |-> b,
                   result |-> r, exc |-> NoExc, msg |-> <<>>] :
                r \in minimize(b)}

\* A call update_rewards(G, family, eps=eps, prior=prior).
UpdateRewards(family, eps, prior) ==
    \E o \in update_rewards(G, norder, rewards, family, eps, prior) :
        /\ rewards' = o.rewards
        /\ b0' = o.b0
        /\ result' = o.result
        /\ exc' = o.exc
        /\ msg' = o.msg
        /\ op' = "update_rewards"
        /\ UNCHANGED <<nodes, edges, norder>>

\* The iteration order of the nodes after add_edge(a, b): a node the graph
\* did not hold is appended, a before b.
AppendNew(ord, a) ==
    IF \E i \in 1..Len(ord) : ord[i] = a THEN ord ELSE Append(ord, a)

\* A call G.add_edge(a, b, w) between two estimations.
AddEdgeUR(a, b, w) ==
    /\ \E o \in add_edge(G, a, b, w) :
          /\ Cardinality(o.G.edges) <= MaxRewardEdges
          /\ nodes' = o.G.nodes
          /\ edges' = o.G.edges
          /\ exc' = o.exc
          /\ op' = "add_edge"
    /\ norder' = AppendNew(AppendNew(norder, a), b)
    /\ b0' = <<>>
    /\ result' = NoResult
    /\ msg' = <<>>
    /\ UNCHANGED rewards

\* The edges inserted between estimations run from a node to itself or to a
\* node of higher id.
NextRewards ==
    \/ /\ \E a \in Nodes : \E b \in {c \in Nodes : c >= a}, w \in Weights :
            AddEdgeUR(a, b, w)
       /\ UNCHANGED <<rpvars, genvars, medvars, votes>>
    \/ /\ \E family \in Families, eps \in EpsValues, prior \in Priors :
            UpdateRewards(family, eps, prior)
       /\ UNCHANGED <<rpvars, genvars, medvars, votes>>

SpecRewards == Init /\ [][NextRewards]_vars

(* ------------------- claims about the PrefDAG ------------------------- *)

\* The strict subgraph holds no directed cycle, self-loops included.
Acyclic(Gr) == Cycles(strict_prefs(Gr)) = {}

\* The last call raised a coherence violation.
Raised == exc.kind = "TransitivityViolation"

\* C1: starting from the empty PrefDAG, after any sequence of add_edge and
\* add_edges_from calls, returning or raising, the edges of weight > 0 form
\* no directed cycle, self-loops included.
C1_StrictAcyclic == Acyclic(G)

\* C1's case: a call was rejected and the graph holds a chain of two strict
\* edges, one more strict edge away from a cycle.
C1_Witness ==
    /\ Raised
    /\ \E a \in Nodes, b \in Nodes, c \in Nodes :
          {<<a, b>>, <<b, c>>} \subseteq strict_prefs(G) /\ a # c

\* C2 as stated: whenever add_edge(a, b, weight > 0) raises, the node set and
\* the weighted edge set are what they were before the call.
C2_AddEdgeRollbackIdentical ==
    [][\A a \in Nodes, b \in Nodes, w \in Weights :
          (AddEdge(a, b, w) /\ exc'.kind = "TransitivityViolation")
              => (nodes' = nodes /\ edges' = edges)]_vars

\* C3 as stated: whenever add_edges_from raises, the node set and the weighted
\* edge set are what they were before the call.
C3_BatchRollbackIdentical ==
    [][\A ebunch \in Batches, w \in Weights :
          (AddEdgesFrom(ebunch, w) /\ exc'.kind = "TransitivityViolation")
              => (nodes' = nodes /\ edges' = edges)]_vars

\* C4: when add_edge(a, b, weight > 0) raises, the error carries a non-empty
\* directed cycle whose edges are all strict edges of the rejected
\* configuration: the strict subgraph before the call plus the edge a->b.
\* Only a call with weight > 0 raises.
C4_CycleInRejectedConfiguration ==
    [][(op' = "add_edge" /\ exc'.kind = "TransitivityViolation") =>
          \A a \in Nodes, b \in Nodes, w \in Weights :
              AddEdge(a, b, w)
                  => /\ w > 0
                     /\ exc'.has_cycle
                     /\ Len(exc'.cycle) >= 1
                     /\ IsCycle(strict_prefs(G) \cup {<<a, b>>}, exc'.cycle)]_vars

\* C4's case: add_edge raised with a cycle through three nodes.
C4_Witness == op = "add_edge" /\ Raised /\ exc.has_cycle /\ Len(exc.cycle) = 3

\* C5 as stated: a coherence violation raised by add_edges_from is of the kind
\* add_edge raises and has its cycle field set to the cycle that was found.
C5_BatchErrorCarriesCycle ==
    (op = "add_edges_from" /\ Raised)
        => (exc.has_cycle /\ Len(exc.cycle) >= 1)

\* The step commits the edge a->b with weight w: it is in the graph with its
\* two nodes, in place of any edge a->b there was, and nothing else changed.
Committed(a, b, w) ==
    /\ exc' = NoExc
    /\ nodes' = nodes \cup {a, b}
    /\ edges' = {e \in edges : ~(e[1] = a /\ e[2] = b)} \cup {<<a, b, w>>}

\* C15: add_edge with a weight <= 0 performs no cycle check: it always
\* commits the edge and never raises, also when the edge closes a cycle made
\* of indifference edges only or of indifference and strict edges.
C15_IndifferenceAlwaysCommits ==
    [][(op' = "add_edge") =>
          \A a \in Nodes, b \in Nodes, w \in {x \in Weights : x <= 0} :
              AddEdge(a, b, w) => Committed(a, b, w)]_vars

\* An indifference edge stands in the graph closing a cycle with a strict
\* edge, the last add_edge having raised nothing.
C15_Witness ==
    /\ op = "add_edge"
    /\ exc = NoExc
    /\ \E a \in nodes, b \in nodes :
          a # b /\ <<a, b, 0>> \in edges /\ <<b, a, 1>> \in edges

\* C19: in a PrefDAG reached through add_edge and add_edges_from only,
\* add_edge(a, b, weight > 0) raises exactly when a = b or the strict
\* subgraph before the call has a path from b to a; otherwise the edge is
\* committed.
C19_RaisesIffBackPath ==
    [][(op' = "add_edge") =>
          \A a \in Nodes, b \in Nodes, w \in {x \in Weights : x > 0} :
              AddEdge(a, b, w) =>
                  IF a = b \/ a \in Reachable(strict_prefs(G), {b})
                  THEN exc'.kind = "TransitivityViolation"
                  ELSE Committed(a, b, w)]_vars

\* add_edge raised on an edge from a node to itself.
C19_Witness == op = "add_edge" /\ Raised /\ Len(exc.cycle) = 1

(* ------------------- claims about ranked_pairs ------------------------ *)

\* The candidates that occur in the tally.
Tallied == {p[1] : p \in {q \in Nodes \X Nodes : tally[q] > 0}} \cup
           {p[2] : p \in {q \in Nodes \X Nodes : tally[q] > 0}}

\* The strict preferences of the ballots together: the tallied pairs.
TalliedPairs == {p \in Nodes \X Nodes : tally[p] > 0}

\* C6: for every collection of ballots, those whose combined strict
\* preferences form cycles included, the graph ranked_pairs builds and returns
\* has an acyclic strict subgraph, and no coherence violation leaves
\* ranked_pairs.
C6_AggregateAcyclic ==
    /\ rpc # "raised"
    /\ exc.kind # "TransitivityViolation"
    /\ rpc \in {"lock", "done"} => Acyclic(G)

\* C6's case: ranked_pairs returned for ballots whose combined strict
\* preferences form a cycle, having skipped a pair.
C6_Witness ==
    /\ rpc = "done"
    /\ Cycles(TalliedPairs) # {}
    /\ \E p \in TalliedPairs : p \notin Pairs(G)

\* W has strictly more votes than Z in both of their pairs, for every other
\* candidate Z of the tally, and there is such a Z.
CondorcetWinner(W) ==
    /\ W \in Tallied
    /\ \A Z \in Tallied \ {W} : tally[<<W, Z>>] > tally[<<Z, W>>]

\* C7: if W has strictly more tallied votes for (W, Z) than for (Z, W) against
\* every other candidate Z of the tally, the returned DAG has no edge into W
\* and an edge W->Z, of weight > 0, to every such Z.
C7_CondorcetConsistent ==
    rpc = "done" =>
        \A W \in Nodes :
            CondorcetWinner(W) =>
                /\ \A e \in edges : e[2] # W
                /\ \A Z \in Tallied \ {W} : <<W, Z>> \in strict_prefs(G)

\* C7's case: ranked_pairs returned with a Condorcet winner who lost votes to
\* two other candidates, and at least one pair was skipped.
C7_Witness ==
    /\ rpc = "done"
    /\ \E W \in Nodes :
          /\ CondorcetWinner(W)
          /\ Cardinality({Z \in Nodes : tally[<<Z, W>>] > 0}) = 2
    /\ \E p \in TalliedPairs : p \notin Pairs(G)

\* The tally of three single-vote ballots a>b, b>c, c>a.
CycleTally(a, b, c) ==
    [p \in Nodes \X Nodes |->
        IF p \in {<<a, b>>, <<b, c>>, <<c, a>>} THEN 1 ELSE 0]

\* C8: for three single-vote ballots that form a Condorcet cycle over three
\* candidates, ranked_pairs returns a DAG with exactly two of the three edges,
\* each of weight 1.  (Only three ballots of one strict edge each give this
\* tally, in any order.)
C8_CondorcetCycleTwoEdges ==
    \A a \in Nodes, b \in Nodes, c \in Nodes :
        (rpc = "done" /\ nballots = 3 /\ Cardinality({a, b, c}) = 3
            /\ tally = CycleTally(a, b, c))
        => /\ edges \subseteq {<<a, b, 1>>, <<b, c, 1>>, <<c, a, 1>>}
           /\ Cardinality(edges) = 2

\* C8's case: ranked_pairs returned for the ballots 1>2, 2>3, 3>1.
C8_Witness == rpc = "done" /\ nballots = 3 /\ tally = CycleTally(1, 2, 3)

HeavyPath(a, b, c) ==
    b \in Reachable({<<e[1], e[2]>> : e \in {x \in edges : x[3] >= c}}, {a})

\* C18: ranked_pairs attempts the tallied pairs in non-increasing order of
\* count and skips a pair only when inserting it would close a cycle: every
\* tallied pair (w, l) is an edge of the returned graph, or the returned
\* graph has a path from l to w whose edges all have a count of at least
\* that of (w, l).
C18_LockedOrBlocked ==
    /\ [](rpc = "done" =>
            \A p \in TalliedPairs :
                p \in Pairs(G) \/ HeavyPath(p[2], p[1], tally[p]))
    /\ [][(rpc = "lock" /\ rpc' = "lock") =>
            \A p \in todo \ todo', q \in todo' : tally[p] >= tally[q]]_vars

\* ranked_pairs returned having skipped a pair of two votes, blocked by a
\* path of two edges.
C18_Witness ==
    /\ rpc = "done"
    /\ \E p \in TalliedPairs :
          /\ tally[p] = 2
          /\ p \notin Pairs(G)
          /\ HeavyPath(p[2], p[1], 2)
          /\ \E x \in Nodes \ {p[1], p[2]} :
                \E e \in edges, f \in edges :
                    /\ e[1] = p[2] /\ e[2] = x /\ e[3] >= 2
                    /\ f[1] = x /\ f[2] = p[1] /\ f[3] >= 2

(* ------------------- claims about searchsorted ------------------------ *)

\* The insertion index a leftmost binary search returns for a query that
\* ranks before the element at position i (from 0) exactly when i >= t: the
\* least index all elements before which rank before the query.
BisectLeft(n, t) ==
    CHOOSE i \in 0..n :
        /\ \A j \in 0..(i - 1) : j < t
        /\ i < n => ~(i < t)

\* C9: on a PrefDAG whose strict subgraph is a total order of n nodes, for
\* every target index k in 0..n, searchsorted driven with answers consistent
\* with the order (greater exactly when the probe's position is below k)
\* returns k, the index a reference leftmost binary search returns.
C9_SearchsortedMatchesReference ==
    (spc = "done" /\ consistent)
        => /\ ret = k
           /\ ret = BisectLeft(Len(ordering), k)

\* C9's case: a search over four nodes returned after two or more consistent
\* answers with a target strictly inside the order.
C9_Witness ==
    /\ spc = "done" /\ consistent
    /\ Len(ordering) = 4 /\ k = 2 /\ ret = 2

\* The state of a started generator is sound: 0 <= lo <= hi <= n; at a yield
\* lo <= pivot < hi and the probe is ordering[pivot]; it is over exactly when
\* lo = hi, and then returns that index.
C10_BoundsSound ==
    spc \in {"yielded", "done"} =>
        /\ 0 <= lo /\ lo <= hi /\ hi <= Len(ordering)
        /\ spc = "yielded" =>
              /\ lo <= pivot /\ pivot < hi
              /\ probe = ordering[pivot + 1]
        /\ (spc = "done") <=> (lo = hi)
        /\ spc = "done" => (ret = lo /\ ret \in 0..Len(ordering))

\* C10: for every sequence of answers, consistent or not, searchsorted
\* terminates: the bounds stay sound, every resume makes hi - lo strictly
\* smaller and yields at most one probe, a generator that is over stays over,
\* with n = 0 the first resume returns 0 without a probe, and a generator
\* whose probes are all answered reaches its return.
C10_SearchsortedTerminates ==
    /\ []C10_BoundsSound
    /\ <>(spc = "done")
    /\ [][/\ spc = "yielded" => hi' - lo' < hi - lo
          /\ spc = "done" => spc' = "done"
          /\ (spc = "idle" /\ strict_nodes(G) = {})
                => (spc' = "done" /\ ret' = 0)]_vars

\* C10's case: a search over four nodes returned after an answer that
\* contradicts an earlier one's target.
C10_Witness == spc = "done" /\ ~consistent /\ Len(ordering) = 4

(* --------------------- claims about median ---------------------------- *)

\* The strict subgraph of Gr is a total order of one or more nodes.
IsTotalOrder(Gr) ==
    /\ strict_nodes(Gr) # {}
    /\ Acyclic(Gr)
    /\ \A u \in strict_nodes(Gr), v \in strict_nodes(Gr) :
          u # v => \/ v \in Reachable(strict_prefs(Gr), {u})
                   \/ u \in Reachable(strict_prefs(Gr), {v})

\* The number of nodes ranked strictly before v in the strict subgraph.
Position(Gr, v) ==
    Cardinality({u \in strict_nodes(Gr) \ {v} :
                    v \in Reachable(strict_prefs(Gr), {u})})

\* C11: on a PrefDAG whose strict subgraph is a total order of n >= 1 nodes,
\* median() raises nothing and returns the node at 0-indexed position
\* floor(n / 2) of that order, n counting the nodes of the strict subgraph
\* only.
C11_MedianIsMiddle ==
    (op = "median" /\ IsTotalOrder(G)) =>
        /\ exc = NoExc
        /\ med \in strict_nodes(G)
        /\ Position(G, med) = Cardinality(strict_nodes(G)) \div 2

\* A median was returned from an order of an even number of nodes that
\* shares the graph with a node outside the strict subgraph.
C11_Witness ==
    /\ op = "median"
    /\ IsTotalOrder(G)
    /\ Cardinality(strict_nodes(G)) = 4
    /\ nodes # strict_nodes(G)
    /\ Position(G, med) = 2

(* ----------------- claims about update_rewards ------------------------ *)

\* No node of the graph has an edge.
AllIsolated == \A n \in nodes : degree(G, n) = 0

\* The step leaves the reward of every node of degree 0 as it was.
IsolatedUntouched == \A n \in Nodes : degree(G, n) = 0 => rewards'[n] = rewards[n]

\* C12, as stated: update_rewards never creates or changes the reward of a
\* node of degree 0, whatever the family, eps, prior and solver outcome, and
\* on a graph with no node of degree > 0 the call returns with every
\* attribute unchanged.
C12_IsolatedNeverRewarded ==
    [][(op' = "update_rewards") =>
          /\ IsolatedUntouched
          /\ AllIsolated => (exc' = NoExc /\ rewards' = rewards)]_vars

\* C12, amended: update_rewards never creates or changes the reward of a
\* node of degree 0, whatever the family, eps, prior and solver outcome; on
\* a graph with no node of degree > 0 every attribute is left unchanged and
\* the solver is not invoked, and the call returns when eps > 0 (whatever
\* the family), the only exception raised being the one for eps <= 0.
C12_IsolatedNeverRewardedValidEps ==
    [][(op' = "update_rewards") =>
          /\ IsolatedUntouched
          /\ AllIsolated =>
                /\ rewards' = rewards
                /\ result' = NoResult
                /\ exc' \in {NoExc, AssertionError}
                /\ \A family \in Families, eps \in EpsValues, prior \in Priors :
                      (eps > 0 /\ UpdateRewards(family, eps, prior))
                          => exc' = NoExc]_vars

\* An estimation succeeded on a graph that holds a node of degree 0.
C12_Witness ==
    /\ op = "update_rewards"
    /\ result.called /\ result.success
    /\ \E n \in nodes : degree(G, n) = 0

\* C13: for every graph, update_rewards called with a non-positive eps or
\* with a family other than bradley-terry and thurstone raises an
\* invalid-argument error, before any reward is written and before the
\* solver is invoked.
C13_InvalidArgumentsRaise ==
    [][(op' = "update_rewards") =>
          \A family \in Families, eps \in EpsValues, prior \in Priors :
              (/\ UpdateRewards(family, eps, prior)
               /\ (eps <= 0 \/ family \notin {"bradley-terry", "thurstone"}))
                  => /\ exc' \in {AssertionError, ValueError}
                     /\ rewards' = rewards
                     /\ result' = NoResult]_vars

\* The column of the non-isolated node n in the solver's vectors: its rank
\* among the nodes of degree > 0 in iteration order.
Column(n) ==
    Cardinality({j \in 1..Len(norder) :
                    /\ degree(G, norder[j]) > 0
                    /\ \E i \in j..Len(norder) : norder[i] = n})

\* C14: when the solver reports failure, update_rewards raises a convergence
\* error that carries the solver's message and writes no reward; when it
\* reports success, every node of degree > 0 has its reward set to its
\* fitted value.
C14_SolverOutcomeHonoured ==
    [][(op' = "update_rewards" /\ result'.called) =>
          IF result'.success
          THEN /\ exc' = NoExc
               /\ \A n \in nodes :
                     degree(G, n) > 0 => rewards'[n] = <<result'.x[Column(n)]>>
          ELSE /\ exc' = RuntimeError
               /\ \E i \in 1..Len(msg') : msg'[i] = result'.message
               /\ rewards' = rewards]_vars

\* An estimation succeeded and wrote different fitted values to two nodes.
C14_Witness ==
    /\ op = "update_rewards"
    /\ result.called /\ result.success
    /\ \E n \in nodes, m \in nodes :
          /\ degree(G, n) > 0 /\ degree(G, m) > 0
          /\ rewards[n] = <<1>> /\ rewards[m] = <<2>>

C20_SnapshotIsolatesSearch ==
    /\ [][(spc \in {"yielded", "done"}) => ordering' = ordering]_vars
    /\ [](spc = "yielded" => probe = ordering[pivot + 1])
    /\ []((spc = "done" /\ consistent)
            => ret = BisectLeft(Len(ordering), k))

\* The generator returned on a resume, after consistent answers, while its
\* snapshot of two or more nodes was no longer a topological ordering of the
\* graph.
C20_Witness ==
    /\ op = "send"
    /\ spc = "done" /\ consistent
    /\ Len(ordering) >= 2
    /\ ret = 1
    /\ ordering \notin topological_sort(strict_nodes(G), strict_prefs(G))

====
